---- MODULE Spec2Model ----
(***************************************************************************)
(* Model of the scheduling core of app.py: parse_tasks (line-oriented      *)
(* text -> tasks + errors) and distribute_tasks (greedy partition of a     *)
(* task list into labelled day buckets).                                   *)
(*                                                                         *)
(* Hours and capacities are floats in the source; they are modelled as     *)
(* integers (exact arithmetic).                                            *)
(***************************************************************************)
EXTENDS Integers, Sequences, FiniteSets, TLC

VARIABLES
    \* distribute_tasks
    tasks,          \* parameter tasks: sequence of Task records
    hours_per_day,  \* parameter hours_per_day
    scheduled,      \* list of (label, list of Task)
    day_index,
    remaining,
    current_day,
    idx,            \* position of the for loop in tasks (next task to take)
    pc,             \* "start" | "loop" | "done" | "idle"
    \* parse_tasks
    raw_text,       \* parameter raw_text: sequence of tokens
    line_no,        \* enumerate(..., start=1) counter of the line being read
    ptasks,         \* local tasks of parse_tasks
    errors,         \* local errors of parse_tasks
    ppc             \* "start" | "loop" | "done" | "idle"

dvars == <<tasks, hours_per_day, scheduled, day_index, remaining, current_day, idx, pc>>
pvars == <<raw_text, line_no, ptasks, errors, ppc>>
vars == <<tasks, hours_per_day, scheduled, day_index, remaining, current_day, idx, pc,
          raw_text, line_no, ptasks, errors, ppc>>

None == "None"

-----------------------------------------------------------------------------
(* Bounds and input domains *)

MaxTasks == 4

MaxText == 5

HoursValues == {-1, 0, 1, 2, 3, 4, 10}

Capacities == {-1, 0, 1, 3, 6}

\* hours of the tasks of default_tasks, in text order
DefaultHours == <<2, 4, 3, 1, 2>>

\* the slider's default capacity
DefaultCapacity == 6

RECURSIVE SeqsUpTo(_, _)
SeqsUpTo(S, n) ==
    IF n = 0 THEN {<<>>}
    ELSE LET shorter == SeqsUpTo(S, n - 1)
         IN  shorter \cup {Append(s, x) : s \in {t \in shorter : Len(t) = n - 1}, x \in S}

Task(name, hours, due_date) == [name |-> name, hours |-> hours, due_date |-> due_date]

\* a task list with the given hours; names tell the tasks apart
MkTasks(hs) == [k \in 1..Len(hs) |-> Task("task" \o ToString(k), hs[k], None)]

HourLists == SeqsUpTo(HoursValues, MaxTasks) \cup {DefaultHours}

-----------------------------------------------------------------------------
(* distribute_tasks *)

\* f"Day {day_index + 1}"
DayLabel(di) == "Day " \o ToString(di + 1)

\* mutant: the oversize test applied only to a valid (positive) capacity
TooLargeForDay_PositiveOnly(task, cap) == cap > 0 /\ task.hours > cap

\* too_large_for_day = task.hours > hours_per_day
TooLargeForDay(task, cap) == task.hours > cap

\* mutant: no oversize special case (the day is closed only when the task does not fit)
ClosesBefore_NoOversize(task, rem, cur, cap) == task.hours > rem /\ cur # <<>>

\* mutant: >= in place of > at the "would exceed remaining" boundary
ClosesBefore_GreaterEq(task, rem, cur, cap) ==
    (task.hours >= rem /\ cur # <<>>) \/ TooLargeForDay(task, cap)

\* (task.hours > remaining and current_day) or too_large_for_day
ClosesBefore(task, rem, cur, cap) ==
    (task.hours > rem /\ cur # <<>>) \/ TooLargeForDay(task, cap)

\* the loop state of distribute_tasks as one value
Loop(sched, cur, di, rem) ==
    [scheduled |-> sched, current_day |-> cur, day_index |-> di, remaining |-> rem]

\* mutant: remaining is not reset when a day is closed
CloseDay_NoReset(s, cap) ==
    Loop(Append(s.scheduled, <<DayLabel(s.day_index), s.current_day>>),
         <<>>, s.day_index + 1, s.remaining)

\* mutant: day_index is not advanced when a day is closed
CloseDay_NoIncrement(s, cap) ==
    Loop(Append(s.scheduled, <<DayLabel(s.day_index), s.current_day>>),
         <<>>, s.day_index, cap)

\* scheduled.append((f"Day {day_index + 1}", current_day)); current_day = [];
\* day_index += 1; remaining = hours_per_day
CloseDay(s, cap) ==
    Loop(Append(s.scheduled, <<DayLabel(s.day_index), s.current_day>>),
         <<>>, s.day_index + 1, cap)

\* current_day.append(task); remaining -= task.hours
Place(s, task) ==
    Loop(s.scheduled, Append(s.current_day, task), s.day_index, s.remaining - task.hours)

\* the body of "for task in tasks"
Iterate(s, task, cap) ==
    LET s1 == IF ClosesBefore(task, s.remaining, s.current_day, cap)
              THEN CloseDay(s, cap) ELSE s
        s2 == Place(s1, task)
    IN  IF TooLargeForDay(task, cap) THEN CloseDay(s2, cap) ELSE s2

\* mutant: the day still open after the loop is not emitted
Result_NoFinalEmit(s) == s.scheduled

\* if current_day: scheduled.append((f"Day {day_index + 1}", current_day))
Result(s) ==
    IF s.current_day # <<>>
    THEN Append(s.scheduled, <<DayLabel(s.day_index), s.current_day>>)
    ELSE s.scheduled

PIdle ==
    /\ raw_text = <<>>
    /\ line_no = 0
    /\ ptasks = <<>>
    /\ errors = <<>>
    /\ ppc = "idle"

DistInit ==
    /\ tasks \in {MkTasks(hs) : hs \in HourLists}
    /\ hours_per_day \in Capacities
    /\ scheduled = <<>>
    /\ day_index = 0
    /\ remaining = 0
    /\ current_day = <<>>
    /\ idx = 1
    /\ pc = "start"
    /\ PIdle

\* if not tasks: return []
DistEmpty ==
    /\ pc = "start"
    /\ tasks = <<>>
    /\ scheduled' = <<>>
    /\ pc' = "done"
    /\ UNCHANGED <<tasks, hours_per_day, day_index, remaining, current_day, idx>>
    /\ UNCHANGED pvars

\* the locals set up before the loop
DistBegin ==
    /\ pc = "start"
    /\ tasks # <<>>
    /\ scheduled' = <<>>
    /\ day_index' = 0
    /\ remaining' = hours_per_day
    /\ current_day' = <<>>
    /\ idx' = 1
    /\ pc' = "loop"
    /\ UNCHANGED <<tasks, hours_per_day>>
    /\ UNCHANGED pvars

\* one iteration of "for task in tasks"
DistIter ==
    /\ pc = "loop"
    /\ idx <= Len(tasks)
    /\ LET s == Iterate(Loop(scheduled, current_day, day_index, remaining),
                        tasks[idx], hours_per_day)
       IN  /\ scheduled' = s.scheduled
           /\ current_day' = s.current_day
           /\ day_index' = s.day_index
           /\ remaining' = s.remaining
    /\ idx' = idx + 1
    /\ UNCHANGED <<tasks, hours_per_day, pc>>
    /\ UNCHANGED pvars

\* after the loop: emit the open day if it holds anything, and return
DistFinish ==
    /\ pc = "loop"
    /\ idx > Len(tasks)
    /\ scheduled' = Result(Loop(scheduled, current_day, day_index, remaining))
    /\ pc' = "done"
    /\ UNCHANGED <<tasks, hours_per_day, day_index, remaining, current_day, idx>>
    /\ UNCHANGED pvars

DistNext ==
    \/ DistEmpty
    \/ DistBegin
    \/ DistIter
    \/ DistFinish

SpecDist == DistInit /\ [][DistNext]_vars

-----------------------------------------------------------------------------
(* parse_tasks *)

\* Text is a sequence of tokens, each standing for the characters it spells:
\* the line break, the field delimiter, a blank, a word, two digits and a
\* well-formed calendar date.
NL == "\n"
BAR == "|"
SP == " "
Word == "Design"
DateText == "2024-07-01"
Digits == {"0", "3"}
Tokens == {NL, BAR, SP, Word, DateText} \cup Digits

\* longer inputs: a line with a malformed due date before a well-formed line,
\* a three-field line with blanks around the delimiters, and three lines of
\* which the middle one is blank
SampleTexts ==
    { <<Word, BAR, BAR, "3", NL, Word, BAR, "3">>,
      <<Word, SP, Word, SP, BAR, SP, "3", SP, BAR, SP, DateText>>,
      <<Word, BAR, Word, NL, SP, NL, Word, BAR, "3", "0">> }

DigitValue(tok) == IF tok = "0" THEN 0 ELSE 3

\* the text a token sequence spells
RECURSIVE Join(_)
Join(toks) == IF toks = <<>> THEN "" ELSE toks[1] \o Join(Tail(toks))

\* str.split(sep): the pieces between the separators, always at least one
RECURSIVE Split(_, _)
Split(s, sep) ==
    IF \E i \in 1..Len(s) : s[i] = sep
    THEN LET i == CHOOSE j \in 1..Len(s) :
                      s[j] = sep /\ \A k \in 1..(j - 1) : s[k] # sep
         IN  <<SubSeq(s, 1, i - 1)>> \o Split(SubSeq(s, i + 1, Len(s)), sep)
    ELSE <<s>>

\* str.splitlines(): no empty last line after a final line break
SplitLines(text) ==
    LET pieces == Split(text, NL)
    IN  IF pieces[Len(pieces)] = <<>> THEN SubSeq(pieces, 1, Len(pieces) - 1) ELSE pieces

\* str.strip()
RECURSIVE Strip(_)
Strip(s) ==
    IF s = <<>> THEN s
    ELSE IF s[1] = SP THEN Strip(Tail(s))
    ELSE IF s[Len(s)] = SP THEN Strip(SubSeq(s, 1, Len(s) - 1))
    ELSE s

\* parts = [part.strip() for part in line.split("|")]
Parts(line) == LET raw == Split(line, BAR) IN [k \in 1..Len(raw) |-> Strip(raw[k])]

\* float(text) succeeds on a run of digits (read in base ten) and raises
\* ValueError on the other texts the tokens spell
IsNumber(field) == field # <<>> /\ \A k \in 1..Len(field) : field[k] \in Digits

RECURSIVE FloatOf(_)
FloatOf(field) ==
    IF field = <<>> THEN 0
    ELSE 10 * FloatOf(SubSeq(field, 1, Len(field) - 1)) + DigitValue(field[Len(field)])

\* datetime.strptime(text, "%Y-%m-%d") succeeds on a well-formed date alone
IsDate(field) == field = <<DateText>>

DateOf(field) == [year |-> 2024, month |-> 7, day |-> 1]

\* what one line of the loop body contributes:
\* nothing (blank line), one error, or one task
LineOutcome(line, n) ==
    IF Strip(line) = <<>> THEN [kind |-> "blank"]
    ELSE LET parts == Parts(line)
             hasHours == Len(parts) > 1 /\ parts[2] # <<>>
             hasDue == Len(parts) > 2 /\ parts[3] # <<>>
         IN  IF parts[1] = <<>>
             THEN [kind |-> "error",
                   error |-> "Line " \o ToString(n) \o ": Task name is required."]
             ELSE IF hasHours /\ ~IsNumber(parts[2])
             THEN [kind |-> "error",
                   error |-> "Line " \o ToString(n) \o ": Hours must be a number (got '"
                             \o Join(parts[2]) \o "')."]
             ELSE IF hasDue /\ ~IsDate(parts[3])
             THEN [kind |-> "error",
                   error |-> "Line " \o ToString(n) \o ": Due date must be YYYY-MM-DD (got '"
                             \o Join(parts[3]) \o "')."]
             ELSE [kind |-> "task",
                   task |-> Task(Join(parts[1]),
                                 IF hasHours THEN FloatOf(parts[2]) ELSE 1,
                                 IF hasDue THEN DateOf(parts[3]) ELSE None)]

DIdle ==
    /\ tasks = <<>>
    /\ hours_per_day = 0
    /\ scheduled = <<>>
    /\ day_index = 0
    /\ remaining = 0
    /\ current_day = <<>>
    /\ idx = 0
    /\ pc = "idle"

ParseInit ==
    /\ raw_text \in SeqsUpTo(Tokens, MaxText) \cup SampleTexts
    /\ line_no = 0
    /\ ptasks = <<>>
    /\ errors = <<>>
    /\ ppc = "start"
    /\ DIdle

\* tasks = []; errors = []; the enumeration starts at 1
ParseBegin ==
    /\ ppc = "start"
    /\ ptasks' = <<>>
    /\ errors' = <<>>
    /\ line_no' = 1
    /\ ppc' = "loop"
    /\ UNCHANGED raw_text
    /\ UNCHANGED dvars

\* mutant: the first malformed line ends the loop (break in place of continue)
ParseLine_BreakOnError ==
    /\ ppc = "loop"
    /\ line_no <= Len(SplitLines(raw_text))
    /\ LET out == LineOutcome(SplitLines(raw_text)[line_no], line_no)
       IN  /\ ptasks' = IF out.kind = "task" THEN Append(ptasks, out.task) ELSE ptasks
           /\ errors' = IF out.kind = "error" THEN Append(errors, out.error) ELSE errors
           /\ line_no' = IF out.kind = "error"
                         THEN Len(SplitLines(raw_text)) + 1
                         ELSE line_no + 1
    /\ UNCHANGED <<raw_text, ppc>>
    /\ UNCHANGED dvars

\* one iteration of "for line_no, line in enumerate(raw_text.splitlines(), start=1)"
ParseLine ==
    /\ ppc = "loop"
    /\ line_no <= Len(SplitLines(raw_text))
    /\ LET out == LineOutcome(SplitLines(raw_text)[line_no], line_no)
       IN  /\ ptasks' = IF out.kind = "task" THEN Append(ptasks, out.task) ELSE ptasks
           /\ errors' = IF out.kind = "error" THEN Append(errors, out.error) ELSE errors
    /\ line_no' = line_no + 1
    /\ UNCHANGED <<raw_text, ppc>>
    /\ UNCHANGED dvars

\* return ParseResult(tasks=tasks, errors=errors)
ParseReturn ==
    /\ ppc = "loop"
    /\ line_no > Len(SplitLines(raw_text))
    /\ ppc' = "done"
    /\ UNCHANGED <<raw_text, line_no, ptasks, errors>>
    /\ UNCHANGED dvars

ParseNext ==
    \/ ParseBegin
    \/ ParseLine
    \/ ParseReturn

SpecParse == ParseInit /\ [][ParseNext]_vars

-----------------------------------------------------------------------------
(* Properties of distribute_tasks *)

Bucket(b) == scheduled[b][2]

RECURSIVE Flatten(_)
Flatten(sched) ==
    IF sched = <<>> THEN <<>> ELSE sched[1][2] \o Flatten(Tail(sched))

RECURSIVE SumLens(_)
SumLens(sched) ==
    IF sched = <<>> THEN 0 ELSE Len(sched[1][2]) + SumLens(Tail(sched))

RECURSIVE SumHours(_)
SumHours(ts) ==
    IF ts = <<>> THEN 0 ELSE ts[1].hours + SumHours(Tail(ts))

HoursOf(ts) == [k \in 1..Len(ts) |-> ts[k].hours]

\* buckets of the schedule as lists of hours, labels kept
HoursSchedule == [b \in 1..Len(scheduled) |-> <<scheduled[b][1], HoursOf(Bucket(b))>>]

\* number of tasks in the buckets before bucket b
Offset(b) == SumLens(SubSeq(scheduled, 1, b - 1))

\* the k-th input task sits in bucket b
Placed(k, b) ==
    /\ b \in 1..Len(scheduled)
    /\ Offset(b) < k
    /\ k <= Offset(b) + Len(Bucket(b))
    /\ Bucket(b)[k - Offset(b)] = tasks[k]

Oversized(k) == tasks[k].hours > hours_per_day

\* C1: the buckets of the returned schedule, concatenated in bucket order, are
\* exactly the input sequence, and the bucket sizes sum to len(tasks).
C1_Partition ==
    pc = "done" =>
        /\ Flatten(scheduled) = tasks
        /\ SumLens(scheduled) = Len(tasks)

C1_Witness ==
    /\ pc = "done"
    /\ Len(tasks) >= 3
    /\ \E b1, b2 \in 1..Len(scheduled) : b1 # b2 /\ Len(Bucket(b1)) >= 2 /\ Bucket(b2) # <<>>

\* C2: hours [10, 2] with capacity 6 give exactly
\* [("Day 1", [10]), ("Day 2", [2])].
C2_OversizedFirst ==
    (pc = "done" /\ HoursOf(tasks) = <<10, 2>> /\ hours_per_day = DefaultCapacity) =>
        HoursSchedule = << <<"Day 1", <<10>> >>, <<"Day 2", <<2>> >> >>

\* C3: with a positive capacity every oversized task is alone in its bucket and
\* every task after it sits in a later bucket.
C3_OversizedAlone ==
    (pc = "done" /\ hours_per_day > 0) =>
        \A k \in 1..Len(tasks) :
            Oversized(k) =>
                \E b \in 1..Len(scheduled) :
                    /\ Placed(k, b)
                    /\ Len(Bucket(b)) = 1
                    /\ \A j \in (k + 1)..Len(tasks) :
                           \E b2 \in (b + 1)..Len(scheduled) : Placed(j, b2)

C3_Witness ==
    /\ pc = "done"
    /\ hours_per_day > 0
    /\ \E k \in 2..(Len(tasks) - 1) :
           /\ Oversized(k)
           /\ ~Oversized(k - 1)
           /\ ~Oversized(k + 1)

NoOversized == \A k \in 1..Len(tasks) : ~Oversized(k)

\* the iteration in progress emitted a bucket before placing its task
StartsNewBucket == Len(scheduled') > Len(scheduled)

\* C4: with a positive capacity and no oversized task, a new bucket is started
\* before a task iff the current bucket is non-empty and the task's hours
\* strictly exceed the capacity minus the hours already in the current bucket;
\* the default hours [2,4,3,1,2] with capacity 6 give Day 1 = [2,4],
\* Day 2 = [3,1,2].
C4_Boundary ==
    /\ [][(pc = "loop" /\ pc' = "loop" /\ hours_per_day > 0 /\ NoOversized) =>
            (StartsNewBucket <=>
                (/\ current_day # <<>>
                 /\ tasks[idx].hours > hours_per_day - SumHours(current_day)))]_vars
    /\ []((pc = "done" /\ HoursOf(tasks) = DefaultHours
                       /\ hours_per_day = DefaultCapacity) =>
            HoursSchedule = << <<"Day 1", <<2, 4>> >>, <<"Day 2", <<3, 1, 2>> >> >>)

\* the default hours under the default capacity: 4 and the final 2 each fill
\* their day exactly and stay in it
C4_Witness ==
    /\ pc = "done"
    /\ HoursOf(tasks) = DefaultHours
    /\ hours_per_day = DefaultCapacity
    /\ Len(scheduled) = 2
    /\ SumHours(Bucket(1)) = hours_per_day
    /\ SumHours(Bucket(2)) = hours_per_day

\* C5 as stated, on tasks with zero or positive hours: with a capacity that is
\* zero or negative no bucket holds more than one task (zero-hour tasks
\* included).
C5_OnePerDay ==
    (pc = "done" /\ hours_per_day <= 0 /\ \A k \in 1..Len(tasks) : tasks[k].hours >= 0) =>
        \A b \in 1..Len(scheduled) : Len(Bucket(b)) <= 1

\* C5 amended: with a capacity that is zero or negative and tasks whose hours
\* all strictly exceed the capacity, every task is treated as oversized (its
\* day is closed right after it is placed), so no bucket holds more than one
\* task.
C5_OnePerDayAmended ==
    (hours_per_day <= 0 /\ \A k \in 1..Len(tasks) : Oversized(k)) =>
        /\ pc = "loop" => current_day = <<>>
        /\ \A b \in 1..Len(scheduled) : Len(Bucket(b)) <= 1

C5_Witness ==
    /\ pc = "done"
    /\ hours_per_day < 0
    /\ Len(tasks) >= 2
    /\ \A k \in 1..Len(tasks) : Oversized(k)
    /\ \E k \in 1..(Len(tasks) - 1) : tasks[k].hours = 0 /\ tasks[k + 1].hours = 0

\* C6: the bucket at position i (counting from 1) is labelled "Day i".
C6_Labels ==
    \A i \in 1..Len(scheduled) : scheduled[i][1] = "Day " \o ToString(i)

C6_Witness ==
    /\ pc = "done"
    /\ Len(scheduled) >= 3

\* C9: no bucket of the returned schedule is empty.
C9_NoEmptyBucket ==
    pc = "done" => \A b \in 1..Len(scheduled) : Bucket(b) # <<>>

\* C10: with a positive capacity and non-negative hours, at the start of every
\* iteration remaining = capacity - hours in current_day and remaining >= 0;
\* every bucket without an oversized task totals at most the capacity.
C10_Remaining ==
    (hours_per_day > 0 /\ \A k \in 1..Len(tasks) : tasks[k].hours >= 0) =>
        /\ pc = "loop" =>
              /\ remaining = hours_per_day - SumHours(current_day)
              /\ remaining >= 0
        /\ \A b \in 1..Len(scheduled) :
              (\A k \in 1..Len(Bucket(b)) : Bucket(b)[k].hours <= hours_per_day) =>
                  SumHours(Bucket(b)) <= hours_per_day

C10_Witness ==
    /\ pc = "loop"
    /\ hours_per_day > 0
    /\ \A k \in 1..Len(tasks) : tasks[k].hours >= 0
    /\ Len(current_day) >= 2
    /\ remaining = 0
    /\ Len(scheduled) >= 1

-----------------------------------------------------------------------------
(* Properties of parse_tasks *)

Lines == SplitLines(raw_text)

Blank(line) == \A k \in 1..Len(line) : line[k] = SP

Field(line, k) == IF Len(Parts(line)) >= k THEN Parts(line)[k] ELSE <<>>

NameOk(line) == Field(line, 1) # <<>>

HoursOk(line) == Field(line, 2) = <<>> \/ IsNumber(Field(line, 2))

DueOk(line) == Field(line, 3) = <<>> \/ IsDate(Field(line, 3))

WellFormed(line) == ~Blank(line) /\ NameOk(line) /\ HoursOk(line) /\ DueOk(line)

Malformed(line) == ~Blank(line) /\ ~WellFormed(line)

WellFormedLines == {n \in 1..Len(Lines) : WellFormed(Lines[n])}

MalformedLines == {n \in 1..Len(Lines) : Malformed(Lines[n])}

\* the i-th smallest member of a set of numbers
Nth(S, i) == CHOOSE n \in S : Cardinality({m \in S : m < n}) = i - 1

\* the message the first failing field of line n calls for
ErrorFor(n) ==
    "Line " \o ToString(n) \o ": " \o
        (IF ~NameOk(Lines[n]) THEN "Task name is required."
         ELSE IF ~HoursOk(Lines[n])
         THEN "Hours must be a number (got '" \o Join(Field(Lines[n], 2)) \o "')."
         ELSE "Due date must be YYYY-MM-DD (got '" \o Join(Field(Lines[n], 3)) \o "').")

\* C7: every well-formed line yields exactly one task, in line order; every
\* malformed line yields exactly one error, citing its 1-based position in the
\* raw text (blank lines counted), and no task; blank lines yield neither; the
\* lines after a malformed line are still parsed.
C7_PerLine ==
    ppc = "done" =>
        /\ Len(ptasks) = Cardinality(WellFormedLines)
        /\ Len(errors) = Cardinality(MalformedLines)
        /\ \A i \in 1..Len(ptasks) :
               ptasks[i].name = Join(Field(Lines[Nth(WellFormedLines, i)], 1))
        /\ \A i \in 1..Len(errors) : errors[i] = ErrorFor(Nth(MalformedLines, i))

\* a blank line, then a malformed line, then a well-formed line
C7_Witness ==
    /\ ppc = "done"
    /\ \E b, m, w \in 1..Len(Lines) :
           /\ b < m
           /\ m < w
           /\ Blank(Lines[b])
           /\ Malformed(Lines[m])
           /\ WellFormed(Lines[w])
    /\ Len(ptasks) >= 1
    /\ Len(errors) >= 1

\* C8: every task parse_tasks returns has a positive number of hours.
C8_PositiveHours ==
    ppc = "done" => \A i \in 1..Len(ptasks) : ptasks[i].hours > 0

====
